---- MODULE Spec2Model ----
(***************************************************************************)
(* Message search engine (src/main.py): a loader that pages through an     *)
(* upstream message store with retry/backoff and publishes the result to a *)
(* process-wide cache, and a search endpoint that scans the cache.         *)
(*                                                                         *)
(* Every coroutine step below runs from one suspension point (an await     *)
(* that really yields: client.get, asyncio.sleep) to the next one, because *)
(* the asyncio event loop only switches tasks at such points.              *)
(***************************************************************************)
EXTENDS Integers, Sequences, FiniteSets, TLC

\* ---------------------------------------------------------------- bounds
\* Page size asked of the upstream (limit = 100 at src/main.py:30), scaled
\* down so that a data set of a few records spans several pages.
PageLimit == 2
\* Number of load_all_messages() invocations (startup + refreshes) in a run.
MaxRuns == 2
\* Largest upstream data set, in records.
MaxRecords == 3
\* Number of times the upstream data set changes during a behaviour.
MaxUpdates == 1
\* Number of unexpected failures (network error, malformed body) of one page.
MaxErrors == 1
\* Largest skip and limit a search request carries.
MaxSkipArg == 2
MaxLimitArg == 2
\* Longest query string of a search request.
MaxQueryLen == 2

\* ------------------------------------------------------------- constants
max_retries == 5

Runs == 1..MaxRuns

\* --------------------------------------------------------------- strings
\* A string is a sequence of one-character strings.

\* str.lower() on one character.
LowerChar(c) ==
  CASE c = "A" -> "a"
    [] c = "B" -> "b"
    [] OTHER -> c

\* str.lower()
Lower(s) == [i \in 1..Len(s) |-> LowerChar(s[i])]

IsSpace(c) == c = " "

\* str.strip(): drop leading and trailing whitespace.
RECURSIVE LStrip(_)
LStrip(s) == IF s # <<>> /\ IsSpace(Head(s)) THEN LStrip(Tail(s)) ELSE s

RECURSIVE RStrip(_)
RStrip(s) ==
  IF s # <<>> /\ IsSpace(s[Len(s)]) THEN RStrip(SubSeq(s, 1, Len(s) - 1)) ELSE s

Strip(s) == RStrip(LStrip(s))

\* Python's `sub in s` on strings, scanning the start offsets left to right.
RECURSIVE InFrom(_, _, _)
InFrom(sub, s, i) ==
  IF i + Len(sub) - 1 > Len(s) THEN FALSE
  ELSE IF SubSeq(s, i, i + Len(sub) - 1) = sub THEN TRUE
  ELSE InFrom(sub, s, i + 1)

In(sub, s) == InFrom(sub, s, 1)

\* --------------------------------------------------------------- records
\* dict.get(key, "")
Get(msg, key) == IF key \in DOMAIN msg THEN msg[key] ELSE <<>>

\* The records the upstream can hold, in upstream order.  Record 3 has no
\* user_name and record 4 no message and no user_id.
Pool ==
  << [id |-> 1, message |-> <<"a", "B">>, user_name |-> <<"A">>, user_id |-> <<"b">>],
     [id |-> 2, message |-> <<"b", "a">>, user_name |-> <<"B">>, user_id |-> <<"a">>],
     [id |-> 3, message |-> <<"B">>, user_id |-> <<"A", "b">>],
     [id |-> 4, user_name |-> <<"a", "a">>],
     [id |-> 5, message |-> <<"A", " ", "b">>, user_name |-> <<"b">>, user_id |-> <<"b">>] >>

\* Upstream data sets: the first n records of the pool.
Datasets == { SubSeq(Pool, 1, n) : n \in 0..MaxRecords }

\* Query strings of search requests.
QueryChars == {"a", "B", " "}

Queries == UNION { [1..n -> QueryChars] : n \in 0..MaxQueryLen }

\* ----------------------------------------------------------------- state
VARIABLES
  cache_loaded,   \* global cache_loaded
  cache_obj,      \* which list object the global message_cache is bound to:
                  \* 0 = the module-level [], r = the all_messages list of run r
  upstream,       \* the upstream message store's records, in its order
  updates,        \* number of upstream changes so far
  nruns,          \* number of load_all_messages() invocations so far
  started,        \* the startup event has fired
  pc,             \* per run: where the coroutine is suspended
  kind,           \* per run: "startup" or "refresh", the caller
  skip,           \* per run: local skip
  all_messages,   \* per run: content of the local list all_messages
  retry_count,    \* per run: local retry_count
  success,        \* per run: local success
  total,          \* per run: local total (of the last page)
  wait_time,      \* per run: duration of the sleep the run is suspended in
  backoff_waits,  \* per run: backoff sleeps started for the current page
  clean,          \* per run: no failed fetch and no upstream change so far
  result,         \* per run: which return path ended it
  attempts,       \* per run: client.get calls issued for the current page
  pages_ok,       \* per run: pages fetched successfully so far
  fatal_at,       \* per run: retry_count when an error status outside the
                  \* retryable list arrived, else -1
  response        \* <<>> or <<the reply of the search this step served>>

vars ==
  << cache_loaded, cache_obj, upstream, updates, nruns, started, pc,
     kind, skip, all_messages, retry_count, success, total, wait_time,
     backoff_waits, clean, result, attempts, pages_ok, fatal_at, response >>

locals == << skip, all_messages, retry_count, success, total >>

\* The value of the global message_cache.
message_cache == IF cache_obj = 0 THEN <<>> ELSE all_messages[cache_obj]

\* A run that has entered the fetch loop and has not returned.
Active(r) == pc[r] \in {"get", "pace", "backoff", "errwait"}

Init ==
  /\ cache_loaded = FALSE
  /\ cache_obj = 0
  /\ upstream \in Datasets
  /\ updates = 0
  /\ nruns = 0
  /\ started = FALSE
  /\ pc = [r \in Runs |-> "idle"]
  /\ kind = [r \in Runs |-> "none"]
  /\ skip = [r \in Runs |-> 0]
  /\ all_messages = [r \in Runs |-> <<>>]
  /\ retry_count = [r \in Runs |-> 0]
  /\ success = [r \in Runs |-> FALSE]
  /\ total = [r \in Runs |-> 0]
  /\ wait_time = [r \in Runs |-> 0]
  /\ backoff_waits = [r \in Runs |-> 0]
  /\ clean = [r \in Runs |-> TRUE]
  /\ result = [r \in Runs |-> "none"]
  /\ attempts = [r \in Runs |-> 0]
  /\ pages_ok = [r \in Runs |-> 0]
  /\ fatal_at = [r \in Runs |-> -1]
  /\ response = <<>>

\* ---------------------------------------------------------------- loader
\* HTTP error statuses the upstream answers with (raise_for_status raises).
ErrorStatuses == {404, 429, 500}

\* retry_loop with the bound tested inclusively.
retry_loop_inclusive(rc, succ) == rc <= max_retries /\ ~succ

\* retry_loop giving up one attempt early.
retry_loop_short(rc, succ) == rc < max_retries - 1 /\ ~succ

\* The inner loop's test: while retry_count < max_retries and not success
retry_loop(rc, succ) == rc < max_retries /\ ~succ

\* load_complete stopping one record short.
load_complete_early(acc, tot) == Len(acc) + 1 >= tot

\* if len(all_messages) >= total
load_complete(acc, tot) == Len(acc) >= tot

\* if e.response.status_code in [400, 402, 403, 429, 404, 401, 405]
is_retryable(status) == status \in {400, 402, 403, 429, 404, 401, 405}

\* wait_time = 5 * (2 ** retry_count), computed after retry_count += 1
backoff_time(rc) == 5 * (2 ^ rc)

\* next_skip advancing the cursor one record too far.
next_skip_off(sk) == sk + PageLimit + 1

\* skip += limit
next_skip(sk) == sk + PageLimit

\* The upstream's answer to GET /messages/?skip=sk&limit=lim.
page_items(sk, lim) ==
  SubSeq(upstream, sk + 1, IF sk + lim < Len(upstream) THEN sk + lim ELSE Len(upstream))

\* Commit extending the published list with the previous snapshot instead of
\* replacing it.
CommitMerge(r) ==
  /\ cache_loaded' = TRUE
  /\ cache_obj' = r
  /\ all_messages' =
       [all_messages EXCEPT
          ![r] = (IF cache_obj = 0 THEN <<>> ELSE all_messages[cache_obj]) \o @]

\* cache_loaded = True; message_cache = all_messages (no await in between, and
\* all_messages is not touched in the step that publishes it).
Commit(r) ==
  /\ cache_loaded' = TRUE
  /\ cache_obj' = r
  /\ all_messages' = all_messages

\* The run returns: through the "Loaded n messages" paths ("complete"), through
\* the fall-through after the outer loop's break ("partial") or through the
\* guard ("noop").  Its frame goes away; the list all_messages stays, being the
\* cache's.
Return(r, how) ==
  /\ pc' = [pc EXCEPT ![r] = "done"]
  /\ result' = [result EXCEPT ![r] = how]
  /\ wait_time' = [wait_time EXCEPT ![r] = 0]
  /\ skip' = [skip EXCEPT ![r] = 0]
  /\ retry_count' = [retry_count EXCEPT ![r] = 0]
  /\ success' = [success EXCEPT ![r] = FALSE]
  /\ total' = [total EXCEPT ![r] = 0]
  /\ backoff_waits' = [backoff_waits EXCEPT ![r] = 0]
  /\ attempts' = [attempts EXCEPT ![r] = 0]
  /\ pages_ok' = [pages_ok EXCEPT ![r] = 0]

\* Abort publishing the partial list but leaving the cache marked not loaded.
AbortUnloaded(r) ==
  /\ cache_loaded' = FALSE
  /\ cache_obj' = r
  /\ all_messages' = all_messages
  /\ Return(r, "partial")

\* if not success: break, then message_cache = all_messages; cache_loaded = True
Abort(r) ==
  /\ Commit(r)
  /\ Return(r, "partial")

\* Goto suspending the run without a sleep.
Goto_nowait(r, p, wait) ==
  /\ pc' = [pc EXCEPT ![r] = p]
  /\ wait_time' = [wait_time EXCEPT ![r] = 0]
  /\ UNCHANGED << cache_loaded, cache_obj, result >>

\* The run goes on to its next suspension point, in state p.
Goto(r, p, wait) ==
  /\ pc' = [pc EXCEPT ![r] = p]
  /\ wait_time' = [wait_time EXCEPT ![r] = wait]
  /\ UNCHANGED << cache_loaded, cache_obj, result >>

\* Enter without the `if cache_loaded: return` guard.
Enter_unguarded(r, loaded) ==
  /\ skip' = [skip EXCEPT ![r] = 0]
  /\ all_messages' = [all_messages EXCEPT ![r] = <<>>]
  /\ retry_count' = [retry_count EXCEPT ![r] = 0]
  /\ success' = [success EXCEPT ![r] = FALSE]
  /\ pc' = [pc EXCEPT ![r] = "get"]
  /\ attempts' = [attempts EXCEPT ![r] = 1]
  /\ pages_ok' = [pages_ok EXCEPT ![r] = 0]
  /\ UNCHANGED << cache_obj, total, result, wait_time, backoff_waits >>

\* load_all_messages() from its call to its first suspension in client.get.
Enter(r, loaded) ==
  IF loaded
  THEN /\ Return(r, "noop")
       /\ UNCHANGED << cache_obj, all_messages >>
  ELSE /\ skip' = [skip EXCEPT ![r] = 0]
       /\ all_messages' = [all_messages EXCEPT ![r] = <<>>]
       /\ retry_count' = [retry_count EXCEPT ![r] = 0]
       /\ success' = [success EXCEPT ![r] = FALSE]
       /\ pc' = [pc EXCEPT ![r] = "get"]
       /\ attempts' = [attempts EXCEPT ![r] = 1]
       /\ pages_ok' = [pages_ok EXCEPT ![r] = 0]
       /\ UNCHANGED << cache_obj, total, result, wait_time, backoff_waits >>

\* The startup event: await load_all_messages().
startup_event ==
  /\ ~started
  /\ nruns < MaxRuns
  /\ started' = TRUE
  /\ nruns' = nruns + 1
  /\ kind' = [kind EXCEPT ![nruns + 1] = "startup"]
  /\ cache_loaded' = cache_loaded
  /\ Enter(nruns + 1, cache_loaded)
  /\ response' = <<>>
  /\ UNCHANGED << upstream, updates, clean, fatal_at >>

\* POST /refresh-cache: cache_loaded = False; await load_all_messages().
refresh_cache ==
  /\ nruns < MaxRuns
  /\ nruns' = nruns + 1
  /\ kind' = [kind EXCEPT ![nruns + 1] = "refresh"]
  /\ cache_loaded' = FALSE
  /\ Enter(nruns + 1, cache_loaded')
  /\ response' = <<>>
  /\ UNCHANGED << upstream, updates, started, clean, fatal_at >>

\* get_ok publishing the accumulator after every page.
get_ok_publishing(r) ==
  /\ pc[r] = "get"
  /\ LET items == page_items(skip[r], PageLimit)
     IN IF items = <<>>
        THEN /\ Commit(r)
             /\ Return(r, "complete")
        ELSE /\ all_messages' = [all_messages EXCEPT ![r] = @ \o items]
             /\ total' = [total EXCEPT ![r] = Len(upstream)]
             /\ skip' = [skip EXCEPT ![r] = next_skip(@)]
             /\ success' = [success EXCEPT ![r] = TRUE]
             /\ pc' = [pc EXCEPT ![r] = "pace"]
             /\ wait_time' = [wait_time EXCEPT ![r] = 1]
             /\ cache_obj' = r
             /\ pages_ok' = [pages_ok EXCEPT ![r] = @ + 1]
             /\ UNCHANGED << cache_loaded, result, retry_count, backoff_waits,
                             attempts >>
  /\ response' = <<>>
  /\ UNCHANGED << upstream, updates, nruns, started, kind, clean, fatal_at >>

\* client.get returns 200 and a page {items, total}.
get_ok(r) ==
  /\ pc[r] = "get"
  /\ LET items == page_items(skip[r], PageLimit)
     IN IF items = <<>>
        THEN /\ Commit(r)
             /\ Return(r, "complete")
        ELSE /\ all_messages' = [all_messages EXCEPT ![r] = @ \o items]
             /\ total' = [total EXCEPT ![r] = Len(upstream)]
             /\ skip' = [skip EXCEPT ![r] = next_skip(@)]
             /\ success' = [success EXCEPT ![r] = TRUE]
             /\ pages_ok' = [pages_ok EXCEPT ![r] = @ + 1]
             /\ Goto(r, "pace", 1)
             /\ UNCHANGED << retry_count, backoff_waits, attempts >>
  /\ response' = <<>>
  /\ UNCHANGED << upstream, updates, nruns, started, kind, clean, fatal_at >>

\* get_status taking the retry branch for every error status.
get_status_retrying(r, status) ==
  /\ pc[r] = "get"
  /\ clean' = [clean EXCEPT ![r] = FALSE]
  /\ retry_count' = [retry_count EXCEPT ![r] = @ + 1]
  /\ backoff_waits' = [backoff_waits EXCEPT ![r] = @ + 1]
  /\ Goto(r, "backoff", backoff_time(retry_count'[r]))
  /\ UNCHANGED << skip, all_messages, success, total, attempts, pages_ok >>
  /\ fatal_at' = IF is_retryable(status)
                 THEN fatal_at
                 ELSE [fatal_at EXCEPT ![r] = retry_count[r]]
  /\ response' = <<>>
  /\ UNCHANGED << upstream, updates, nruns, started, kind >>

\* client.get returns an error status: except httpx.HTTPStatusError.
get_status(r, status) ==
  /\ pc[r] = "get"
  /\ clean' = [clean EXCEPT ![r] = FALSE]
  /\ IF is_retryable(status)
     THEN /\ retry_count' = [retry_count EXCEPT ![r] = @ + 1]
          /\ backoff_waits' = [backoff_waits EXCEPT ![r] = @ + 1]
          /\ Goto(r, "backoff", backoff_time(retry_count'[r]))
          /\ UNCHANGED << skip, all_messages, success, total, attempts, pages_ok >>
     ELSE Abort(r)
  /\ fatal_at' = IF is_retryable(status)
                 THEN fatal_at
                 ELSE [fatal_at EXCEPT ![r] = retry_count[r]]
  /\ response' = <<>>
  /\ UNCHANGED << upstream, updates, nruns, started, kind >>

\* client.get or response.json() raises anything else: except Exception.
get_exception(r) ==
  /\ pc[r] = "get"
  /\ retry_count[r] - backoff_waits[r] < MaxErrors
  /\ clean' = [clean EXCEPT ![r] = FALSE]
  /\ IF retry_count[r] + 1 < max_retries
     THEN /\ retry_count' = [retry_count EXCEPT ![r] = @ + 1]
          /\ Goto(r, "errwait", 5)
          /\ UNCHANGED << skip, all_messages, success, total, backoff_waits,
                          attempts, pages_ok >>
     ELSE IF retry_loop(retry_count[r] + 1, success[r])
          THEN /\ retry_count' = [retry_count EXCEPT ![r] = @ + 1]
               /\ attempts' = [attempts EXCEPT ![r] = @ + 1]
               /\ Goto(r, "get", 0)
               /\ UNCHANGED << skip, all_messages, success, total, backoff_waits,
                               pages_ok >>
          ELSE Abort(r)
  /\ response' = <<>>
  /\ UNCHANGED << upstream, updates, nruns, started, kind, fatal_at >>

\* asyncio.sleep(1.0) returns: the completion test, else the next page.
wake_pace(r) ==
  /\ pc[r] = "pace"
  /\ IF load_complete(all_messages[r], total[r])
     THEN /\ Commit(r)
          /\ Return(r, "complete")
     ELSE /\ retry_count' = [retry_count EXCEPT ![r] = 0]
          /\ success' = [success EXCEPT ![r] = FALSE]
          /\ backoff_waits' = [backoff_waits EXCEPT ![r] = 0]
          /\ attempts' = [attempts EXCEPT ![r] = 1]
          /\ Goto(r, "get", 0)
          /\ UNCHANGED << skip, all_messages, total, pages_ok >>
  /\ response' = <<>>
  /\ UNCHANGED << upstream, updates, nruns, started, kind, clean, fatal_at >>

\* wake_retry starting the page's retry budget afresh on every retry.
wake_retry_restarting(r) ==
  /\ pc[r] \in {"backoff", "errwait"}
  /\ retry_count' = [retry_count EXCEPT ![r] = 0]
  /\ backoff_waits' = [backoff_waits EXCEPT ![r] = 0]
  /\ attempts' = [attempts EXCEPT ![r] = 1]
  /\ Goto(r, "get", 0)
  /\ UNCHANGED << skip, all_messages, success, total, pages_ok >>
  /\ response' = <<>>
  /\ UNCHANGED << upstream, updates, nruns, started, kind, clean, fatal_at >>

\* asyncio.sleep(wait_time) or asyncio.sleep(5) returns: the inner loop's test.
wake_retry(r) ==
  /\ pc[r] \in {"backoff", "errwait"}
  /\ IF retry_loop(retry_count[r], success[r])
     THEN /\ attempts' = [attempts EXCEPT ![r] = @ + 1]
          /\ Goto(r, "get", 0)
          /\ UNCHANGED << locals, backoff_waits, pages_ok >>
     ELSE Abort(r)
  /\ response' = <<>>
  /\ UNCHANGED << upstream, updates, nruns, started, kind, clean, fatal_at >>

\* The upstream store's content changes.
upstream_update ==
  /\ updates < MaxUpdates
  /\ updates' = updates + 1
  /\ upstream' \in Datasets \ {upstream}
  /\ clean' = [r \in Runs |-> clean[r] /\ ~Active(r)]
  /\ response' = <<>>
  /\ UNCHANGED << cache_loaded, cache_obj, nruns, started, pc, kind, locals,
                  wait_time, backoff_waits, result, attempts, pages_ok,
                  fatal_at >>

\* ---------------------------------------------------------------- search
\* matches leaving the user_id field out.
matches_two_fields(query_lower, msg) ==
  \/ In(query_lower, Lower(Get(msg, "message")))
  \/ In(query_lower, Lower(Get(msg, "user_name")))

\* The test of the list comprehension in search_messages.
matches(query_lower, msg) ==
  \/ In(query_lower, Lower(Get(msg, "message")))
  \/ In(query_lower, Lower(Get(msg, "user_name")))
  \/ In(query_lower, Lower(Get(msg, "user_id")))

\* Slice taking the element at hi as well.
Slice_inclusive(seq, lo, hi) ==
  SubSeq(seq, lo + 1, IF hi + 1 < Len(seq) THEN hi + 1 ELSE Len(seq))

\* Python's seq[lo:hi] for 0 <= lo <= hi.
Slice(seq, lo, hi) == SubSeq(seq, lo + 1, IF hi < Len(seq) THEN hi ELSE Len(seq))

search_messages(query, sk, lim) ==
  LET query_lower == Lower(query)
      Test(msg) == matches(query_lower, msg)
      matched == SelectSeq(message_cache, Test)
  IN [ total |-> Len(matched),
       items |-> Slice(matched, sk, sk + lim),
       skip |-> sk,
       limit |-> lim,
       cache_size |-> Len(message_cache) ]

\* search_status without the readiness test.
search_status_unguarded(loaded, q) ==
  IF q = <<>> \/ Strip(q) = <<>> THEN 400 ELSE 200

\* The HTTP status GET /search answers with.
search_status(loaded, q) ==
  IF ~loaded THEN 503
  ELSE IF q = <<>> \/ Strip(q) = <<>> THEN 400
  ELSE 200

\* search filtering the cached list in place instead of building a new list.
search_filtering(q, sk, lim) ==
  /\ LET status == search_status(cache_loaded, q)
         query_lower == Lower(Strip(q))
         Test(msg) == matches(query_lower, msg)
     IN /\ response' =
             << [ status |-> status, q |-> q, skip |-> sk, limit |-> lim,
                  body |-> IF status = 200
                           THEN << search_messages(Strip(q), sk, lim) >>
                           ELSE <<>> ] >>
        /\ all_messages' =
             IF status = 200 /\ cache_obj # 0
             THEN [all_messages EXCEPT ![cache_obj] = SelectSeq(@, Test)]
             ELSE all_messages
  /\ UNCHANGED << cache_loaded, cache_obj, upstream, updates, nruns,
                  started, pc, kind, skip, retry_count, success,
                  total, wait_time, backoff_waits, clean, result, attempts,
                  pages_ok, fatal_at >>

\* GET /search?q=&skip=&limit=: the reply is the status, and the body of a 200.
search(q, sk, lim) ==
  /\ LET status == search_status(cache_loaded, q)
     IN response' =
          << [ status |-> status, q |-> q, skip |-> sk, limit |-> lim,
               body |-> IF status = 200
                        THEN << search_messages(Strip(q), sk, lim) >>
                        ELSE <<>> ] >>
  /\ UNCHANGED << cache_loaded, cache_obj, upstream, updates, nruns,
                  started, pc, kind, skip, all_messages, retry_count, success,
                  total, wait_time, backoff_waits, clean, result, attempts,
                  pages_ok, fatal_at >>

\* ------------------------------------------------------------------ spec
\* Queries of the search requests that interleave with the loader.
ProbeQueries == { <<>>, <<" ">>, <<"B">>, <<" ", "a", "B">> }

\* The service: startup, refreshes and searches in any interleaving, over an
\* upstream that may fail and change.
Next ==
  \/ startup_event
  \/ refresh_cache
  \/ \E r \in Runs : get_ok(r)
  \/ \E r \in Runs, status \in ErrorStatuses : get_status(r, status)
  \/ \E r \in Runs : get_exception(r)
  \/ \E r \in Runs : wake_pace(r)
  \/ \E r \in Runs : wake_retry(r)
  \/ upstream_update
  \/ \E q \in ProbeQueries : search(q, 0, MaxLimitArg)

Spec == Init /\ [][Next]_vars

\* The query engine: a fault-free startup load of any data set, then search
\* requests of every query, skip and limit.
NextSearch ==
  \/ startup_event
  \/ \E r \in Runs : get_ok(r)
  \/ \E r \in Runs : wake_pace(r)
  \/ \E q \in Queries, sk \in 0..MaxSkipArg, lim \in 1..MaxLimitArg : search(q, sk, lim)

SearchSpec == Init /\ [][NextSearch]_vars

\* One step of load run r: an answer of client.get or the end of a sleep.
RunStep(r) ==
  \/ get_ok(r)
  \/ \E status \in ErrorStatuses : get_status(r, status)
  \/ get_exception(r)
  \/ wake_pace(r)
  \/ wake_retry(r)

\* The loader alone: startup, refreshes, the runs' steps and upstream changes.
NextLoad ==
  \/ startup_event
  \/ refresh_cache
  \/ \E r \in Runs : RunStep(r)
  \/ upstream_update

\* Every suspended run is resumed: client.get answers or raises within its
\* timeout, a sleep ends, and the event loop runs every ready coroutine.
LiveSpec ==
  Init /\ [][NextLoad]_vars /\ \A r \in Runs : WF_vars(RunStep(r))

TypeOK ==
  /\ cache_loaded \in BOOLEAN
  /\ cache_obj \in 0..MaxRuns
  /\ nruns \in 0..MaxRuns
  /\ \A r \in Runs : retry_count[r] \in 0..max_retries
  /\ \A r \in Runs : backoff_waits[r] \in 0..retry_count[r]
  /\ Len(response) <= 1

\* ---------------------------------------------------------------- claims
\* The step in which run r returns from the fetch loop.
Terminates(r) == Active(r) /\ pc'[r] = "done"

\* The reply of the step's search request, when the step served one.
Served == response # <<>>

\* C1: a load run that met no failed fetch and no upstream change returns
\* through a "complete" path and leaves loaded = true and the snapshot equal to
\* the upstream sequence, record for record and in upstream order.
C1_FaultFreeLoadYieldsUpstream ==
  [][\A r \in Runs :
       (Terminates(r) /\ clean'[r]) =>
         /\ result'[r] = "complete"
         /\ cache_loaded'
         /\ message_cache' = upstream]_vars

\* C1 witness: the three-record store [A,B], [C] has been loaded by a clean run.
C1_Witness ==
  \E r \in Runs :
    /\ pc[r] = "done" /\ result[r] = "complete" /\ clean[r]
    /\ cache_loaded /\ cache_obj = r
    /\ upstream = SubSeq(Pool, 1, 3)
    /\ message_cache = SubSeq(Pool, 1, 3)

\* C2: a search whose query is empty after trimming is answered 400, loaded
\* or not.
C2_EmptyQueryIsInvalidInput ==
  (Served /\ Strip(response[1].q) = <<>>) => response[1].status = 400

\* C3: a search with a non-empty query served while loaded = false is answered
\* 503 with no body, and the step changes neither the snapshot nor the flag.
C3_UnloadedSearchNotReady ==
  [][(response' # <<>> /\ ~cache_loaded /\ Strip(response'[1].q) # <<>>) =>
       /\ response'[1].status = 503
       /\ response'[1].body = <<>>
       /\ cache_loaded' = cache_loaded
       /\ cache_obj' = cache_obj
       /\ all_messages' = all_messages]_vars

\* C3 witness: a non-empty query was refused while a stale, non-empty snapshot
\* from before a refresh sat in the cache.
C3_Witness ==
  /\ Served
  /\ response[1].status = 503
  /\ Strip(response[1].q) # <<>>
  /\ ~cache_loaded
  /\ message_cache # <<>>

\* C4: while a load run started by a refresh is in flight, every search with a
\* non-empty query is answered 503.
C4_RefreshInFlightRejectsSearch ==
  (Served /\ Strip(response[1].q) # <<>>
          /\ \E r \in Runs : kind[r] = "refresh" /\ Active(r))
    => response[1].status = 503

\* C5: at most one load run is in its fetch loop at any instant.
C5_SingleLoadInProgress == Cardinality({ r \in Runs : Active(r) }) <= 1

\* C6: the list bound to message_cache is never the accumulator of a run still
\* in its fetch loop, and whenever loaded = true it is the accumulator of a run
\* that has returned after publishing.
C6_AtomicPublication ==
  /\ \A r \in Runs : Active(r) => cache_obj # r
  /\ cache_loaded =>
       \E r \in Runs :
         /\ cache_obj = r
         /\ pc[r] = "done"
         /\ result[r] \in {"complete", "partial"}

\* C6 witness: a run is suspended in a wait holding a non-empty partial
\* accumulator while the cache holds another run's non-empty snapshot.
C6_Witness ==
  \E r \in Runs :
    /\ pc[r] \in {"pace", "backoff", "errwait"}
    /\ all_messages[r] # <<>>
    /\ message_cache # <<>>
    /\ message_cache # all_messages[r]

\* C7: after five consecutive retryable-status failures of one page the run's
\* next step is its return: no sixth attempt, no later page, loaded = true and
\* the snapshot is what was accumulated before that page (empty when it was the
\* first page).
C7_ExhaustedRetriesCommitPartial ==
  [][\A r \in Runs :
       (backoff_waits[r] = max_retries /\ pc'[r] # pc[r]) =>
         /\ pc'[r] = "done"
         /\ result'[r] = "partial"
         /\ cache_loaded'
         /\ message_cache' = all_messages[r]
         /\ (skip[r] = 0 => message_cache' = <<>>)]_vars

\* C7 witness: the second page has failed five times with a retryable status.
C7_Witness ==
  \E r \in Runs :
    /\ pc[r] = "backoff"
    /\ backoff_waits[r] = max_retries
    /\ all_messages[r] # <<>>

\* C8: after four retryable-status failures of a page the run makes a fifth
\* attempt at the same cursor; when it succeeds the page's records are appended
\* once, the page has had exactly four backoff waits, and after the pacing wait
\* the run either returns "complete" or starts the next page afresh.
C8_FifthAttemptSucceeds ==
  [][\A r \in Runs :
       (backoff_waits[r] = max_retries - 1 /\ retry_count[r] = max_retries - 1
          /\ pc'[r] # pc[r]) =>
         \/ /\ pc[r] = "backoff"
            /\ pc'[r] = "get"
            /\ skip'[r] = skip[r]
            /\ all_messages'[r] = all_messages[r]
         \/ /\ pc[r] = "get"
            /\ pc'[r] = "pace"
            /\ success'[r]
            /\ backoff_waits'[r] = max_retries - 1
            /\ all_messages'[r] =
                 all_messages[r] \o page_items(skip[r], PageLimit)
         \/ /\ pc[r] = "pace"
            /\ \/ pc'[r] = "done" /\ result'[r] = "complete"
               \/ pc'[r] = "get" /\ retry_count'[r] = 0 /\ backoff_waits'[r] = 0
         \/ /\ pc[r] = "get"
            /\ ~success'[r]]_vars

\* C8 witness: a page was fetched on the fifth attempt after four backoff waits.
C8_Witness ==
  \E r \in Runs :
    /\ pc[r] = "pace"
    /\ success[r]
    /\ backoff_waits[r] = max_retries - 1
    /\ retry_count[r] = max_retries - 1

\* C9: when a run started by a refresh returns, the snapshot is that run's
\* accumulator and nothing else, whether it returned complete or partial.
C9_RefreshReplacesSnapshot ==
  [][\A r \in Runs :
       (Terminates(r) /\ kind[r] = "refresh") =>
         /\ cache_loaded'
         /\ message_cache' = all_messages[r]]_vars

\* C9 witness: a refresh run that aborted has published its accumulator, and a
\* record of the earlier run's accumulator is not in it.
C9_Witness ==
  \E r, r0 \in Runs :
    /\ r0 < r
    /\ kind[r] = "refresh" /\ pc[r] = "done" /\ result[r] = "partial"
    /\ cache_obj = r /\ cache_loaded
    /\ pc[r0] = "done" /\ result[r0] = "complete"
    /\ \E i \in 1..Len(all_messages[r0]) :
         \A j \in 1..Len(all_messages[r]) :
           all_messages[r][j] # all_messages[r0][i]

\* The matching rule as the specification words it: the lowercased query
\* occurs in the lowercased value of one of the three fields, a missing field
\* counting as the empty string.
SearchedFields == {"message", "user_name", "user_id"}

OccursIn(sub, s) ==
  \E k \in 0..Len(s) :
    /\ k + Len(sub) <= Len(s)
    /\ \A i \in 1..Len(sub) : s[k + i] = sub[i]

SatisfiesRule(q, msg) ==
  \E f \in SearchedFields :
    OccursIn(Lower(q), Lower(IF f \in DOMAIN msg THEN msg[f] ELSE <<>>))

\* C10: in every 200 reply, with q the query handed to search_messages (the
\* trimmed request query): total is the number of snapshot records satisfying
\* the rule, every returned record satisfies it, and when the page spans the
\* whole match list the returned records are exactly the satisfying ones.
C10_MatchRule ==
  (Served /\ response[1].status = 200) =>
    LET body == response[1].body[1]
        q == Strip(response[1].q)
        hits == { i \in 1..Len(message_cache) : SatisfiesRule(q, message_cache[i]) }
    IN /\ body.total = Cardinality(hits)
       /\ \A j \in 1..Len(body.items) : SatisfiesRule(q, body.items[j])
       /\ (body.skip = 0 /\ body.limit >= body.total) =>
            \A i \in 1..Len(message_cache) :
              (i \in hits) <=>
                (\E j \in 1..Len(body.items) : body.items[j] = message_cache[i])

\* C10 witness: a query in another case than the data matched two of three
\* records, one of them through user_id alone, and the page holds one.
C10_Witness ==
  /\ Served
  /\ response[1].status = 200
  /\ response[1].body[1].total = 2
  /\ Len(response[1].body[1].items) = 1
  /\ response[1].body[1].cache_size = 3

\* The match list as the specification words it: the snapshot's records that
\* satisfy the rule, in snapshot order.
RECURSIVE MatchList(_, _)
MatchList(q, snapshot) ==
  IF snapshot = <<>> THEN <<>>
  ELSE (IF SatisfiesRule(q, Head(snapshot)) THEN << Head(snapshot) >> ELSE <<>>)
         \o MatchList(q, Tail(snapshot))

\* The pages search_messages returns for skip = sk, sk + L, sk + 2L, ... up to
\* the first empty one, concatenated.
RECURSIVE ConcatPages(_, _, _)
ConcatPages(q, L, sk) ==
  LET page == search_messages(q, sk, L).items
  IN IF page = <<>> THEN <<>> ELSE page \o ConcatPages(q, L, sk + L)

\* C11: every 200 reply holds the elements skip+1 .. skip+limit of the match
\* list, in snapshot order (at most limit of them, none when skip >= total);
\* and on every loaded snapshot, for every query and page length L, the pages
\* at skip = 0, L, 2L, ... concatenate to the match list.
C11_Pagination ==
  /\ (Served /\ response[1].status = 200) =>
       LET body == response[1].body[1]
           full == MatchList(Strip(response[1].q), message_cache)
       IN /\ body.items =
               [ i \in 1..(IF body.skip >= Len(full) THEN 0
                           ELSE IF body.skip + body.limit <= Len(full)
                                THEN body.limit
                                ELSE Len(full) - body.skip)
                   |-> full[body.skip + i] ]
          /\ Len(body.items) <= body.limit
          /\ (body.skip >= body.total => body.items = <<>>)
  /\ cache_loaded =>
       \A q \in Queries, L \in 1..MaxLimitArg :
         Strip(q) # <<>> =>
           ConcatPages(Strip(q), L, 0) = MatchList(Strip(q), message_cache)

\* C11 witness: a middle page, one record at skip 1 of three matches.
C11_Witness ==
  /\ Served
  /\ response[1].status = 200
  /\ response[1].body[1].skip = 1
  /\ response[1].body[1].limit = 1
  /\ response[1].body[1].total = 3
  /\ Len(response[1].body[1].items) = 1

\* C12: a step that serves a search, whatever its reply, changes neither the
\* flag nor the cache binding nor any list; a search that repeats the request
\* of the step before it gets the same reply; and the flag and the snapshot
\* change only in a step that starts a refresh or ends a load run.
C12_SearchReadOnlyIdempotent ==
  [][/\ response' # <<>> =>
          /\ cache_loaded' = cache_loaded
          /\ cache_obj' = cache_obj
          /\ all_messages' = all_messages
          /\ (response # <<>> /\ response'[1].q = response[1].q
                /\ response'[1].skip = response[1].skip
                /\ response'[1].limit = response[1].limit)
               => response' = response
     /\ (cache_loaded' # cache_loaded \/ message_cache' # message_cache) =>
          \/ nruns' = nruns + 1
          \/ \E r \in Runs : Terminates(r)]_vars

\* C12 witness: a search was answered with records while a load run was in
\* flight.
C12_Witness ==
  /\ Served
  /\ response[1].status = 200
  /\ response[1].body[1].items # <<>>
  /\ \E r \in Runs : Active(r)

\* The part of C13 on the flag's changes: true to false only in a step that
\* starts a refresh run, false to true only in a step that ends a load run.
FlagMoves ==
  /\ (cache_loaded /\ ~cache_loaded') =>
       (nruns' = nruns + 1 /\ kind'[nruns'] = "refresh")
  /\ (~cache_loaded /\ cache_loaded') => \E r \in Runs : Terminates(r)

\* C13 as stated: the flag moves as above, and a search is answered 503 only
\* while some load run is in progress.
C13_RejectedOnlyWhileLoading ==
  [][/\ FlagMoves
     /\ (response' # <<>> /\ response'[1].status = 503) =>
          \E r \in Runs : Active(r)]_vars

\* C13 amended: the flag moves as above, and a search is answered 503 only
\* while loaded = false, which is before any load has been started or while
\* some load run is in progress.
C13_RejectedOnlyWhileNotLoaded ==
  [][/\ FlagMoves
     /\ (response' # <<>> /\ response'[1].status = 503) =>
          /\ ~cache_loaded
          /\ nruns = 0 \/ \E r \in Runs : Active(r)]_vars

\* C13 witness: a search was refused during the refresh of a loaded cache.
C13_Witness ==
  /\ Served
  /\ response[1].status = 503
  /\ cache_obj # 0
  /\ \E r \in Runs : kind[r] = "refresh" /\ Active(r)

\* C14: a load_all_messages() call made with loaded = true (the startup
\* event's, the only caller that does not clear the flag first) returns at once
\* without a fetch or a wait and changes neither the flag nor the snapshot; a
\* refresh's call always reaches its first fetch.
C14_NoOpWhenLoaded ==
  [][nruns' = nruns + 1 =>
       LET r == nruns' IN
         /\ (kind'[r] = "startup" /\ cache_loaded) =>
              /\ pc'[r] = "done" /\ result'[r] = "noop"
              /\ attempts'[r] = 0 /\ wait_time'[r] = 0
              /\ cache_loaded' /\ cache_obj' = cache_obj
              /\ all_messages' = all_messages
         /\ kind'[r] = "refresh" =>
              /\ pc'[r] = "get" /\ attempts'[r] = 1
              /\ skip'[r] = 0 /\ all_messages'[r] = <<>>]_vars

\* C14 witness: the startup call found a loaded, non-empty cache and returned.
C14_Witness ==
  \E r \in Runs :
    /\ kind[r] = "startup" /\ result[r] = "noop"
    /\ cache_loaded /\ message_cache # <<>>

\* C15: a run suspended in a backoff wait after the k-th attempt of its page
\* failed sleeps 5 * 2^(k-1) time units, k-1 being the number of failed attempts
\* of the page before that one: 5, 10, 20, 40, 80.
C15_BackoffWaits ==
  \A r \in Runs :
    pc[r] = "backoff" => wait_time[r] = 5 * (2 ^ (attempts[r] - 1))

\* C16: while a run works on a page, the attempt it is at is one of the first
\* max_retries, the retry counter is the number of failed attempts of the page
\* of both kinds (0 at the first attempt of every page), and the cursor is the
\* page size times the number of pages that have succeeded, on the first
\* attempt and on every retry.
C16_AttemptsAndCursor ==
  \A r \in Runs :
    pc[r] \in {"get", "backoff", "errwait"} =>
      /\ attempts[r] \in 1..max_retries
      /\ retry_count[r] = attempts[r] - (IF pc[r] = "get" THEN 1 ELSE 0)
      /\ backoff_waits[r] <= retry_count[r]
      /\ skip[r] = PageLimit * pages_ok[r]

\* C16 witness: the fifth attempt of a later page, after failures of both kinds.
C16_Witness ==
  \E r \in Runs :
    /\ pc[r] = "get"
    /\ attempts[r] = max_retries
    /\ pages_ok[r] >= 1
    /\ backoff_waits[r] > 0
    /\ backoff_waits[r] < retry_count[r]

\* C17: 500 is outside the retryable list, and the step in which a fetch is
\* answered with a status outside that list ends the run there, whatever the
\* retry counter: no wait, the list accumulated so far becomes the snapshot
\* with loaded = true, and the run never moves again.
C17_FatalStatusEndsRun ==
  [][/\ ~is_retryable(500)
     /\ \A r \in Runs :
          /\ fatal_at'[r] # -1 =>
               /\ pc'[r] = "done"
               /\ result'[r] = "partial"
               /\ wait_time'[r] = 0
               /\ all_messages'[r] = all_messages[r]
          /\ (fatal_at[r] = -1 /\ fatal_at'[r] # -1) =>
               /\ pc[r] = "get"
               /\ fatal_at'[r] = retry_count[r]
               /\ cache_loaded'
               /\ message_cache' = all_messages[r]]_vars

\* C17 witness: a 500 on a retry of a later page ended the run, and its partial
\* list is the snapshot.
C17_Witness ==
  \E r \in Runs :
    /\ fatal_at[r] >= 1
    /\ pc[r] = "done"
    /\ cache_loaded
    /\ cache_obj = r
    /\ all_messages[r] # <<>>

\* C19: a run in its pacing wait sleeps 1 time unit; a fetch that returned
\* items is followed by that wait; a fetch that returned none is followed by
\* the return, without a wait; and the first fetch of a later page is issued
\* only by a run coming out of its pacing wait.
C19_Pacing ==
  [][\A r \in Runs :
       /\ pc'[r] = "pace" => wait_time'[r] = 1
       /\ (pc[r] = "get" /\ all_messages'[r] # all_messages[r]) =>
            pc'[r] = "pace"
       /\ (pc[r] = "get" /\ pc'[r] = "done" /\ result'[r] = "complete") =>
            /\ page_items(skip[r], PageLimit) = <<>>
            /\ wait_time'[r] = 0
       /\ (pc[r] # "get" /\ pc'[r] = "get" /\ attempts'[r] = 1
             /\ pages_ok'[r] > 0) =>
            (pc[r] = "pace" /\ wait_time[r] = 1)
       /\ (Active(r) /\ skip'[r] # skip[r] /\ pc'[r] # "done") =>
            pc'[r] = "pace"]_vars

\* C19 witness: a run is in the pacing wait after its second page.
C19_Witness ==
  \E r \in Runs : pc[r] = "pace" /\ pages_ok[r] = 2 /\ wait_time[r] = 1

\* C20: when every load run was started by a refresh and all of them have
\* returned, the snapshot is the list of the run that was started last.
C20_LastStartedWins ==
  ( /\ nruns >= 2
    /\ \A r \in 1..nruns : kind[r] = "refresh" /\ pc[r] = "done" )
    => message_cache = all_messages[nruns]

\* C18: every load run that has entered the fetch loop returns, through one of
\* the three return paths and never with an error; the step in which it returns
\* leaves loaded = true; and once a load has been started the cache does not
\* stay with loaded = false forever.
C18_LoadTerminates ==
  /\ \A r \in Runs : Active(r) ~> (pc[r] = "done")
  /\ [][\A r \in Runs :
          Terminates(r) =>
            /\ cache_loaded'
            /\ result'[r] \in {"complete", "partial"}]_vars
  /\ (nruns > 0 /\ ~cache_loaded) ~> cache_loaded

\* C18 witness: a run has returned with loaded = true after at least two
\* failed attempts of a page and then a fatal status.
C18_Witness ==
  \E r \in Runs :
    /\ pc[r] = "done"
    /\ result[r] = "partial"
    /\ fatal_at[r] >= 2
    /\ cache_loaded

====
